---- MODULE Spec2Model ----
(***************************************************************************)
(* Model of model_server.py: the POST /predict/ pipeline.                  *)
(*                                                                         *)
(* One request is handled by a chain of steps separated by the suspension  *)
(* points of the coroutine: the security dependency (verify_token), the    *)
(* body of predict_endpoint up to the offloaded model call, the worker     *)
(* thread of asyncio.to_thread picking the call up, and the resumption of  *)
(* predict / predict_endpoint after the call returned or raised.           *)
(* Everything between two suspension points runs on the single event-loop  *)
(* thread and is one atomic action.                                        *)
(*                                                                         *)
(* Characters are symbolic: "a" a visible character, "SP" the ASCII space, *)
(* "LF" the newline, "ZWSP" the zero-width space U+200B, "TAB" the tab.    *)
(* A probability is an integer number of 1e-5, a score of 1e-4.            *)
(***************************************************************************)
EXTENDS Integers, Sequences, FiniteSets, TLC

VARIABLES
    record_enabled,      \* config "record_enabled"
    max_content_length,  \* config "max_content_length"
    pc,                  \* per request: where its handling stands
    header,              \* per request: the Authorization header
    body,                \* per request: the request body
    trace,               \* per request: the pipeline stages passed, in order
    model_input,         \* per request: the texts handed to learn.predict
    result,              \* per request: the (label, score) pairs produced
    response,            \* per request: the responses sent
    work_queue,          \* calls submitted to the executor, not yet started
    running,             \* requests whose learn.predict call runs in a worker
    record_file,         \* the characters of the record file
    stderr,              \* lines printed to sys.stderr
    body_read,           \* per request: request.json() was awaited
    recorded             \* the requests whose line was written, in order

vars == <<record_enabled, max_content_length, pc, header, body, trace,
          model_input, result, response, work_queue, running, record_file,
          stderr, body_read, recorded>>

(* Bounds of the model *)
NumRequests == 3
MaxNoteLen == 3
MaxWorkers == 2

Requests == 1..NumRequests

(* ---------------------------------------------------------------- config *)

tokens == {"abc123"}

MaxLens == (MaxNoteLen - 1)..MaxNoteLen

(* ---------------------------------------------------------------- inputs *)

Chars == {"a", "SP", "LF", "ZWSP"}

RECURSIVE NotesOfLen(_)
NotesOfLen(n) ==
    IF n = 0 THEN {<<>>}
    ELSE {Append(s, c) : s \in NotesOfLen(n - 1), c \in Chars}

AllNotes == UNION {NotesOfLen(n) : n \in 0..MaxNoteLen}

NoHeader == [present |-> FALSE, scheme |-> "", credentials |-> ""]

AllHeaders ==
    {NoHeader} \cup
    [present : {TRUE}, scheme : {"Bearer", "Basic"},
     credentials : {"", "abc123", "bad"}]

(* A body is malformed JSON, a JSON value that is no object, or an object  *)
(* whose "note" is absent, null, a number or a string.                     *)
Body(kind, note) == [kind |-> kind, note |-> note]

AllBodies ==
    {Body(k, <<>>) : k \in {"malformed", "nonobject", "absent", "null", "number"}}
    \cup {Body("text", n) : n \in AllNotes}

Returns(label, prob) == [kind |-> "return", label |-> label, prob |-> prob, err |-> ""]
Raises(err) == [kind |-> "raise", label |-> "", prob |-> 0, err |-> err]

AllOutcomes ==
    {Returns(l, p) : l \in {"positive", "negative"},
                     p \in {0, 3125, 9375, 50000, 92346, 100000}}
    \cup {Raises(e) : e \in {"CUDA out of memory", ""}}

AllInputs == [header : AllHeaders, body : AllBodies]

(* The inputs of the runs with several requests in flight. *)
BearerHeader(credentials) ==
    [present |-> TRUE, scheme |-> "Bearer", credentials |-> credentials]

ConcInputs ==
    {[header |-> NoHeader, body |-> Body("text", <<"a", "SP", "a">>)]}
    \cup [header : {BearerHeader("abc123")},
          body : {Body("text", <<"a", "LF", "a">>), Body("text", <<"a", "SP", "a">>),
                  Body("text", <<"ZWSP", "ZWSP", "ZWSP">>)}]

ConcOutcomes ==
    {Returns("positive", 92346), Raises("CUDA out of memory")}

(* ------------------------------------------------------------- functions *)

Take(s, n) == SubSeq(s, 1, n)

(* str.isprintable: the ASCII space is printable, other whitespace and     *)
(* format characters are not.                                              *)
isprintable(char) == char \in {"a", "SP"}

is_invisible(content) == ~ \E i \in 1..Len(content) : isprintable(content[i])

(* Mutant: the slice keeps one character too few. *)
validate_content_length_short(content) ==
    IF Len(content) > max_content_length
    THEN Take(content, max_content_length - 1)
    ELSE content

validate_content_length(content) ==
    IF Len(content) > max_content_length
    THEN Take(content, max_content_length)
    ELSE content

(* ------------------------------------------------------------ exceptions *)

Exc(type, status_code, detail) ==
    [type |-> type, status_code |-> status_code, detail |-> detail]

NoExc == Exc("", 0, "")

HTTPException(status_code, detail) == Exc("HTTPException", status_code, detail)

StatusText(status_code) ==
    CASE status_code = 400 -> "400"
      [] status_code = 403 -> "403"
      [] OTHER -> "500"

(* str(e): an HTTPException prints as "<status_code>: <detail>", any other *)
(* exception as its message.                                               *)
Str(e) ==
    IF e.type = "HTTPException"
    THEN <<StatusText(e.status_code), ": ", e.detail>>
    ELSE <<e.detail>>

(* ------------------------------------------------------------- responses *)

Resp(status, detail, error, label, score) ==
    [status |-> status, detail |-> detail, error |-> error,
     label |-> label, score |-> score]

(* The framework's answer to an HTTPException leaving a dependency. *)
HTTPExceptionResponse(e) == Resp(e.status_code, e.detail, <<>>, "", 0)

(* JSONResponse(content={"error": str(e)}, status_code=500) *)
ErrorResponse(e) == Resp(500, "", Str(e), "", 0)

(* JSONResponse(content={"label": label, "score": score}) *)
OkResponse(label, score) == Resp(200, "", <<>>, label, score)

(* ------------------------------------------------------------ Authorizer *)

(* HTTPBearer(): the credentials of a "Bearer" Authorization header, or    *)
(* the 403 of a missing header, an empty credential or another scheme.     *)
HTTPBearer(h) ==
    IF ~h.present \/ h.scheme = "" \/ h.credentials = ""
    THEN [raised |-> TRUE, exc |-> HTTPException(403, "Not authenticated"),
          credentials |-> ""]
    ELSE IF h.scheme # "Bearer"
    THEN [raised |-> TRUE,
          exc |-> HTTPException(403, "Invalid authentication credentials"),
          credentials |-> ""]
    ELSE [raised |-> FALSE, exc |-> NoExc, credentials |-> h.credentials]

(* Mutant: the membership test is dropped. *)
TokenAcceptedAny(credentials) == TRUE

TokenAccepted(credentials) == credentials \in tokens

(* The outcome of the dependency chain security -> verify_token. *)
Authorizer(h) ==
    LET c == HTTPBearer(h) IN
    IF c.raised THEN c.exc
    ELSE IF ~TokenAccepted(c.credentials)
    THEN HTTPException(403, "Invalid or missing token")
    ELSE NoExc

(* ------------------------------------------------------ ContentValidator *)

MinNoteLength == 3

Passed(note) == [raised |-> FALSE, exc |-> NoExc, note |-> note]
Failed(e) == [raised |-> TRUE, exc |-> e, note |-> <<>>]

(* Mutant: the invisibility check runs before the length check. *)
CheckNoteInvisibleFirst(note) ==
    IF Len(note) = 0
    THEN Failed(HTTPException(400, "Note is required"))
    ELSE IF is_invisible(note)
    THEN Failed(HTTPException(400, "Note contains only invisible characters"))
    ELSE IF Len(note) < MinNoteLength
    THEN Failed(HTTPException(400, "Note is too short"))
    ELSE Passed(note)

(* Mutant: the invisibility check is missing. *)
CheckNoteNoInvisible(note) ==
    IF Len(note) = 0
    THEN Failed(HTTPException(400, "Note is required"))
    ELSE IF Len(note) < MinNoteLength
    THEN Failed(HTTPException(400, "Note is too short"))
    ELSE Passed(note)

(* The three checks of predict_endpoint on a note that is a string. *)
CheckNote(note) ==
    IF Len(note) = 0
    THEN Failed(HTTPException(400, "Note is required"))
    ELSE IF Len(note) < MinNoteLength
    THEN Failed(HTTPException(400, "Note is too short"))
    ELSE IF is_invisible(note)
    THEN Failed(HTTPException(400, "Note contains only invisible characters"))
    ELSE Passed(note)

(* request.json(), data.get("note", "") and the checks. *)
ReadNote(b) ==
    CASE b.kind = "malformed" ->
           Failed(Exc("JSONDecodeError", 0, "Expecting value: line 1 column 1 (char 0)"))
      [] b.kind = "nonobject" ->
           Failed(Exc("AttributeError", 0, "'list' object has no attribute 'get'"))
      [] b.kind = "absent" -> CheckNote(<<>>)
      [] b.kind = "null" -> Failed(HTTPException(400, "Note is required"))
      [] b.kind = "number" ->
           Failed(Exc("TypeError", 0, "object of type 'int' has no len()"))
      [] OTHER -> CheckNote(b.note)

(* ----------------------------------------------------- PredictionInvoker *)

(* float("{:.4f}".format(p)): to 4 decimals, ties to even. *)
Round4(prob) ==
    LET q == prob \div 10
        rem == prob % 10
    IN  IF rem < 5 THEN q
        ELSE IF rem > 5 THEN q + 1
        ELSE IF q % 2 = 0 THEN q ELSE q + 1

(* -------------------------------------------------------- ResultRecorder *)

DigitChars == <<"0", "1", "2", "3", "4", "5", "6", "7", "8", "9">>

Digit(n) == DigitChars[n + 1]

RECURSIVE StripZeros(_)
StripZeros(ds) ==
    IF Len(ds) > 1 /\ ds[Len(ds)] = "0"
    THEN StripZeros(Take(ds, Len(ds) - 1))
    ELSE ds

(* f"{score}": the shortest repr of a float with at most 4 decimals. *)
FloatRepr(score) ==
    LET whole == score \div 10000
        frac == score % 10000
    IN  <<Digit(whole), ".">> \o
        StripZeros(<<Digit(frac \div 1000), Digit((frac \div 100) % 10),
                     Digit((frac \div 10) % 10), Digit(frac % 10)>>)

(* f"{note}\t{score}\n" *)
RecordLine(note, score) == note \o <<"TAB">> \o FloatRepr(score) \o <<"LF">>

(* Mutant: the truncated note is recorded. *)
record_result_truncated(note, score, written) ==
    IF record_enabled
    THEN IF written
         THEN [file |-> record_file \o RecordLine(validate_content_length(note), score),
               err |-> stderr, wrote |-> TRUE]
         ELSE [file |-> record_file,
               err |-> Append(stderr, <<"Record failed: ", "Permission denied">>),
               wrote |-> FALSE]
    ELSE [file |-> record_file, err |-> stderr, wrote |-> FALSE]

(* record_result: the record file and stderr after the call; written says  *)
(* whether open() and write() succeeded.                                   *)
record_result(note, score, written) ==
    IF record_enabled
    THEN IF written
         THEN [file |-> record_file \o RecordLine(note, score), err |-> stderr,
               wrote |-> TRUE]
         ELSE [file |-> record_file,
               err |-> Append(stderr, <<"Record failed: ", "Permission denied">>),
               wrote |-> FALSE]
    ELSE [file |-> record_file, err |-> stderr, wrote |-> FALSE]

(* ------------------------------------------------------------- the state *)

Init ==
    /\ record_enabled \in BOOLEAN
    /\ max_content_length \in MaxLens
    /\ pc = [r \in Requests |-> "Idle"]
    /\ header = [r \in Requests |-> NoHeader]
    /\ body = [r \in Requests |-> Body("absent", <<>>)]
    /\ trace = [r \in Requests |-> <<>>]
    /\ model_input = [r \in Requests |-> <<>>]
    /\ result = [r \in Requests |-> <<>>]
    /\ response = [r \in Requests |-> <<>>]
    /\ work_queue = <<>>
    /\ running = {}
    /\ record_file = <<>>
    /\ stderr = <<>>
    /\ body_read = [r \in Requests |-> FALSE]
    /\ recorded = <<>>

(* A request reaches the server. Requests are numbered in arrival order. *)
Arrive(r, inputs) ==
    /\ pc[r] = "Idle"
    /\ IF r = 1 THEN TRUE ELSE pc[r - 1] # "Idle"
    /\ \E in \in inputs :
          /\ header' = [header EXCEPT ![r] = in.header]
          /\ body' = [body EXCEPT ![r] = in.body]
    /\ pc' = [pc EXCEPT ![r] = "Unauthenticated"]
    /\ UNCHANGED <<record_enabled, max_content_length, trace, model_input,
                   result, response, work_queue, running, record_file, stderr,
                   body_read, recorded>>

(* The dependency of predict_endpoint: security, then verify_token. The    *)
(* framework answers an HTTPException raised here itself and never calls   *)
(* the endpoint.                                                           *)
verify_token(r) ==
    /\ pc[r] = "Unauthenticated"
    /\ LET e == Authorizer(header[r]) IN
       IF e # NoExc
       THEN /\ response' = [response EXCEPT ![r] = Append(@, HTTPExceptionResponse(e))]
            /\ pc' = [pc EXCEPT ![r] = "Responded"]
            /\ UNCHANGED trace
       ELSE /\ trace' = [trace EXCEPT ![r] = Append(@, "Authenticated")]
            /\ pc' = [pc EXCEPT ![r] = "Authenticated"]
            /\ UNCHANGED response
    /\ UNCHANGED <<record_enabled, max_content_length, header, body,
                   model_input, result, work_queue, running, record_file, stderr,
                   body_read, recorded>>

(* predict_endpoint from the body's arrival to the await of the offloaded  *)
(* call: request.json(), the checks, validate_content_length and the       *)
(* submission of learn.predict to the executor; any exception ends in the  *)
(* except clause.                                                          *)
predict_endpoint(r) ==
    /\ pc[r] = "Authenticated"
    /\ body_read' = [body_read EXCEPT ![r] = TRUE]
    /\ LET v == ReadNote(body[r]) IN
       IF v.raised
       THEN /\ response' = [response EXCEPT ![r] = Append(@, ErrorResponse(v.exc))]
            /\ pc' = [pc EXCEPT ![r] = "Responded"]
            /\ UNCHANGED <<trace, model_input, work_queue>>
       ELSE /\ trace' = [trace EXCEPT ![r] = Append(@, "ContentValidated")]
            /\ model_input' = [model_input EXCEPT
                                 ![r] = Append(@, validate_content_length(v.note))]
            /\ work_queue' = Append(work_queue, r)
            /\ pc' = [pc EXCEPT ![r] = "Predicting"]
            /\ UNCHANGED response
    /\ UNCHANGED <<record_enabled, max_content_length, header, body, result,
                   running, record_file, stderr, recorded>>

(* Mutant: the executor has a single worker. *)
WorkerFreeSingle == running = {}

(* asyncio.to_thread: the default executor starts the oldest submitted     *)
(* call when one of its worker threads is free.                            *)
WorkerFree == Cardinality(running) < MaxWorkers

to_thread(r) ==
    /\ work_queue # <<>>
    /\ Head(work_queue) = r
    /\ WorkerFree
    /\ running' = running \cup {r}
    /\ work_queue' = Tail(work_queue)
    /\ UNCHANGED <<record_enabled, max_content_length, pc, header, body, trace,
                   model_input, result, response, record_file, stderr,
                   body_read, recorded>>

(* Mutant: record_result lets the failure of the append escape, and the    *)
(* except clause of predict_endpoint answers it.                           *)
ResumeRecordFailureEscapes(note, out, written) ==
    IF out.kind = "raise"
    THEN [stages |-> <<>>, results |-> <<>>,
          resp |-> ErrorResponse(Exc("Exception", 0, out.err)),
          file |-> record_file, err |-> stderr, wrote |-> FALSE]
    ELSE LET label == out.label
             score == Round4(out.prob)
             rec == record_result(note, score, written)
         IN  IF record_enabled /\ ~written
             THEN [stages |-> <<"Predicted">>,
                   results |-> <<[label |-> label, score |-> score]>>,
                   resp |-> ErrorResponse(Exc("PermissionError", 0, "Permission denied")),
                   file |-> record_file, err |-> stderr, wrote |-> FALSE]
             ELSE [stages |-> <<"Predicted", "Recorded", "Responded">>,
                   results |-> <<[label |-> label, score |-> score]>>,
                   resp |-> OkResponse(label, score),
                   file |-> rec.file, err |-> rec.err, wrote |-> rec.wrote]

(* Mutant: the response to a failed model call does not carry the error's  *)
(* message.                                                                *)
ResumeErrorWithoutMessage(note, out, written) ==
    IF out.kind = "raise"
    THEN [stages |-> <<>>, results |-> <<>>,
          resp |-> Resp(500, "Internal Server Error", <<>>, "", 0),
          file |-> record_file, err |-> stderr, wrote |-> FALSE]
    ELSE LET label == out.label
             score == Round4(out.prob)
             rec == record_result(note, score, written)
         IN  [stages |-> <<"Predicted", "Recorded", "Responded">>,
              results |-> <<[label |-> label, score |-> score]>>,
              resp |-> OkResponse(label, score),
              file |-> rec.file, err |-> rec.err, wrote |-> rec.wrote]

(* What predict and predict_endpoint do once learn.predict has returned or *)
(* raised: the stages passed, the result, the response, the record file    *)
(* and stderr.                                                             *)
Resume(note, out, written) ==
    IF out.kind = "raise"
    THEN [stages |-> <<>>, results |-> <<>>,
          resp |-> ErrorResponse(Exc("Exception", 0, out.err)),
          file |-> record_file, err |-> stderr, wrote |-> FALSE]
    ELSE LET label == out.label
             score == Round4(out.prob)
             rec == record_result(note, score, written)
         IN  [stages |-> <<"Predicted", "Recorded", "Responded">>,
              results |-> <<[label |-> label, score |-> score]>>,
              resp |-> OkResponse(label, score),
              file |-> rec.file, err |-> rec.err, wrote |-> rec.wrote]

(* The offloaded call of request r ends and its coroutine resumes. *)
predict(r, outcomes) ==
    /\ r \in running
    /\ \E out \in outcomes, written \in BOOLEAN :
          LET a == Resume(body[r].note, out, written) IN
          /\ trace' = [trace EXCEPT ![r] = @ \o a.stages]
          /\ result' = [result EXCEPT ![r] = @ \o a.results]
          /\ response' = [response EXCEPT ![r] = Append(@, a.resp)]
          /\ record_file' = a.file
          /\ stderr' = a.err
          /\ recorded' = IF a.wrote THEN Append(recorded, r) ELSE recorded
    /\ running' = running \ {r}
    /\ pc' = [pc EXCEPT ![r] = "Responded"]
    /\ UNCHANGED <<record_enabled, max_content_length, header, body,
                   model_input, work_queue, body_read>>

(* Several requests in flight. *)
Next ==
    \E r \in Requests :
        \/ Arrive(r, ConcInputs)
        \/ verify_token(r)
        \/ predict_endpoint(r)
        \/ to_thread(r)
        \/ predict(r, ConcOutcomes)

Spec == Init /\ [][Next]_vars

(* One request, over every header, body and model outcome. *)
NextOne ==
    \/ Arrive(1, AllInputs)
    \/ verify_token(1)
    \/ predict_endpoint(1)
    \/ to_thread(1)
    \/ predict(1, AllOutcomes)

SpecOne == Init /\ [][NextOne]_vars

(* ================================================================ claims *)

Stages == <<"Authenticated", "ContentValidated", "Predicted", "Recorded", "Responded">>

IsPrefix(s, t) == Len(s) <= Len(t) /\ \A i \in 1..Len(s) : s[i] = t[i]

Arrived(r) == pc[r] # "Idle"
Sent(r) == response[r] # <<>>
Answer(r) == response[r][1]

(* The request carries a bearer credential of the token set. *)
ValidBearer(r) ==
    header[r].present /\ header[r].scheme = "Bearer" /\ header[r].credentials \in tokens

(* The note of a request whose body is an object with a string note or no note. *)
HasNote(r) == body[r].kind \in {"text", "absent"}
Note(r) == body[r].note

(* The message a response carries: the detail of a framework error, or the *)
(* text after "<status>: " of an {"error": ...} body.                      *)
Message(resp) ==
    IF resp.error # <<>> THEN resp.error[Len(resp.error)] ELSE resp.detail

Visible(note) == \E i \in 1..Len(note) : note[i] \in {"a", "SP"}

(* Visible when whitespace, the ASCII space included, counts as non-printable. *)
VisibleNoSpace(note) == \E i \in 1..Len(note) : note[i] = "a"

RecordedSet == {recorded[i] : i \in 1..Len(recorded)}

Count(s, c) == Cardinality({i \in 1..Len(s) : s[i] = c})

(* C1: a request whose bearer credential is missing, empty or not in the   *)
(* token set is answered 403; its body is never read, no check runs on its *)
(* note and nothing is handed to the model.                                *)
C1_UnauthorizedRejected ==
    \A r \in Requests :
        (Arrived(r) /\ ~ValidBearer(r)) =>
            /\ pc[r] \in {"Unauthenticated", "Responded"}
            /\ ~body_read[r]
            /\ trace[r] = <<>>
            /\ model_input[r] = <<>>
            /\ result[r] = <<>>
            /\ r \notin running
            /\ pc[r] = "Responded" =>
                   (Len(response[r]) = 1 /\ Answer(r).status = 403)

C1_Witness ==
    \E r \in Requests :
        /\ header[r].present /\ header[r].scheme = "Bearer"
        /\ header[r].credentials = "bad"
        /\ body[r].kind = "text" /\ Len(Note(r)) = MaxNoteLen
        /\ pc[r] = "Responded" /\ Answer(r).status = 403

(* C2: an authorized request whose note is missing, empty, shorter than 3  *)
(* characters or wholly invisible is answered with status 400 and the      *)
(* message of the failed check, never with status 500.                     *)
C2_ValidationFailureIs400 ==
    \A r \in Requests :
        (ValidBearer(r) /\ HasNote(r) /\ Sent(r)
            /\ (Len(Note(r)) < MinNoteLength \/ ~Visible(Note(r)))) =>
            /\ Answer(r).status = 400
            /\ Message(Answer(r)) \in
                  {"Note is required", "Note is too short",
                   "Note contains only invisible characters"}

(* C3: the checks run in the order empty, too short, invisible and stop at *)
(* the first failure: a note of length 0 (or no note) is reported as "Note *)
(* is required", a note of length 1 or 2 as "Note is too short" whatever   *)
(* its characters, and neither is truncated or handed to the model.        *)
C3_CheckOrder ==
    \A r \in Requests :
        (ValidBearer(r) /\ HasNote(r) /\ Len(Note(r)) < 3) =>
            /\ pc[r] # "Predicting"
            /\ model_input[r] = <<>>
            /\ result[r] = <<>>
            /\ r \notin running
            /\ Sent(r) =>
                  /\ Len(Note(r)) = 0 => Message(Answer(r)) = "Note is required"
                  /\ Len(Note(r)) \in {1, 2} => Message(Answer(r)) = "Note is too short"

C3_Witness ==
    \E r \in Requests :
        /\ ValidBearer(r) /\ body[r].kind = "text"
        /\ Note(r) = <<"ZWSP", "LF">>
        /\ Sent(r) /\ Message(Answer(r)) = "Note is too short"

(* C4: a note of at least 3 characters none of which is printable, where   *)
(* whitespace (the ASCII space included), control characters and           *)
(* non-printable Unicode all count as non-printable, fails with "Note      *)
(* contains only invisible characters" and is not handed to the model; a   *)
(* note of at least 3 characters with a printable one passes the check.    *)
C4_InvisibleRejected ==
    \A r \in Requests :
        (ValidBearer(r) /\ body[r].kind = "text" /\ Len(Note(r)) >= 3
            /\ body_read[r]) =>
            IF VisibleNoSpace(Note(r))
            THEN model_input[r] # <<>>
            ELSE /\ model_input[r] = <<>>
                 /\ Sent(r)
                 /\ Message(Answer(r)) = "Note contains only invisible characters"

(* C5: the text handed to the model is the first max_content_length        *)
(* characters of the note, the whole note when it is no longer than that,  *)
(* and whether a note is handed to the model at all is decided on the      *)
(* untruncated note: it is, exactly when the note has at least 3           *)
(* characters and a printable one.                                         *)
C5_TruncationAfterChecks ==
    \A r \in Requests :
        (ValidBearer(r) /\ body[r].kind = "text" /\ body_read[r]) =>
            IF Len(Note(r)) >= 3 /\ Visible(Note(r))
            THEN /\ Len(model_input[r]) = 1
                 /\ LET text == model_input[r][1]
                        n == IF Len(Note(r)) > max_content_length
                             THEN max_content_length ELSE Len(Note(r))
                    IN  /\ Len(text) = n
                        /\ \A i \in 1..n : text[i] = Note(r)[i]
            ELSE model_input[r] = <<>>

C5_Witness ==
    \E r \in Requests :
        /\ Note(r) = <<"ZWSP", "ZWSP", "a">>
        /\ max_content_length = 2
        /\ model_input[r] = << <<"ZWSP", "ZWSP">> >>
        /\ Sent(r) /\ Answer(r).status = 200

(* C6: a request passes the stages Authenticated, ContentValidated,        *)
(* Predicted, Recorded, Responded in this order and stops at the first     *)
(* failure: a prediction result exists only for an accepted credential and *)
(* a note that passed every check, the record step runs only after a       *)
(* prediction succeeded, and the 200 response follows the record step.     *)
C6_StageOrder ==
    \A r \in Requests :
        /\ IsPrefix(trace[r], Stages)
        /\ Len(response[r]) <= 1 /\ Len(result[r]) <= 1
        /\ Len(trace[r]) >= 1 => ValidBearer(r)
        /\ Len(trace[r]) >= 2 =>
               (body[r].kind = "text" /\ Len(Note(r)) >= 3 /\ Visible(Note(r)))
        /\ result[r] # <<>> <=> Len(trace[r]) >= 3
        /\ Len(trace[r]) >= 4 => result[r] # <<>>
        /\ (Sent(r) /\ Answer(r).status = 200) <=> trace[r] = Stages
        /\ (Sent(r) /\ Answer(r).status # 200) =>
               (Len(trace[r]) <= 2 /\ result[r] = <<>> /\ pc[r] = "Responded")
        /\ r \in RecordedSet => Len(trace[r]) >= 4

C6_Witness ==
    \E r, q \in Requests :
        /\ trace[r] = Stages /\ Answer(r).status = 200 /\ r \in RecordedSet
        /\ trace[q] = <<"Authenticated">> /\ Sent(q) /\ Answer(q).status = 500

(* C7: with recording enabled, a successful prediction appends exactly the *)
(* text note, TAB, score, newline to the record file; when the append      *)
(* fails the failure is only logged, and either way the response is 200    *)
(* with the label and score of the prediction.                             *)
C7_RecordBestEffort ==
    [][\A r \in Requests :
          (result[r] = <<>> /\ result'[r] # <<>>) =>
              LET res == result'[r][1] IN
              /\ response'[r] = <<Resp(200, "", <<>>, res.label, res.score)>>
              /\ IF record_enabled
                 THEN \/ /\ record_file' =
                              record_file \o Note(r) \o <<"TAB">>
                                  \o FloatRepr(res.score) \o <<"LF">>
                         /\ stderr' = stderr
                      \/ /\ record_file' = record_file
                         /\ Len(stderr') = Len(stderr) + 1
                 ELSE record_file' = record_file /\ stderr' = stderr
      ]_vars

(* A prediction of 0.92346 on "a a" was answered 200 with score 0.9235     *)
(* although the append failed, and the file holds nothing.                 *)
C7_Witness ==
    \E r \in Requests :
        /\ record_enabled
        /\ Note(r) = <<"a", "SP", "a">>
        /\ Sent(r) /\ Answer(r).status = 200 /\ Answer(r).score = 9235
        /\ stderr # <<>> /\ record_file = <<>>

(* The same prediction with a successful append left the line              *)
(* "a a\t0.9235\n".                                                        *)
C7_WrittenLine ==
    \E r \in Requests :
        /\ Sent(r) /\ Answer(r).status = 200
        /\ record_file = <<"a", "SP", "a", "TAB", "0", ".", "9", "2", "3", "5", "LF">>

(* C8: when the model call of a request raises, that request is answered   *)
(* 500 with the error's message, nothing is appended to the record file,   *)
(* its worker is released, and no other request is touched: each of them   *)
(* can still take its next step.                                           *)
CanProceed(r) ==
    /\ pc[r] = "Unauthenticated" => ENABLED verify_token(r)
    /\ pc[r] = "Authenticated" => ENABLED predict_endpoint(r)
    /\ r \in running => ENABLED predict(r, ConcOutcomes)

ModelRaised(r) ==
    Sent(r) /\ Answer(r).status = 500 /\ trace[r] = <<"Authenticated", "ContentValidated">>

C8_InferenceFailureConfined ==
    /\ [](\A r \in Requests : CanProceed(r))
    /\ [][\A r \in Requests :
            (r \in running /\ response'[r] # response[r] /\ result'[r] = <<>>) =>
                /\ \E out \in ConcOutcomes :
                      /\ out.kind = "raise"
                      /\ response'[r] = <<Resp(500, "", <<out.err>>, "", 0)>>
                /\ record_file' = record_file /\ recorded' = recorded
                /\ running' = running \ {r}
                /\ work_queue' = work_queue
                /\ \A q \in Requests \ {r} :
                      /\ pc'[q] = pc[q] /\ response'[q] = response[q]
                      /\ trace'[q] = trace[q] /\ result'[q] = result[q]
                      /\ model_input'[q] = model_input[q]
         ]_vars

C8_Witness ==
    \E r, q \in Requests :
        /\ r < q
        /\ ModelRaised(r)
        /\ Sent(q) /\ Answer(q).status = 200 /\ trace[q] = Stages

(* C9 as stated: a submitted prediction never waits for other predictions  *)
(* to end, however many are pending.                                       *)
C9_NoBoundOnPredictions ==
    /\ \A r \in Requests : CanProceed(r)
    /\ work_queue # <<>> => ENABLED to_thread(Head(work_queue))

(* C9 amended: authorization, validation and the completion of a running   *)
(* prediction never wait for another request, and a submitted prediction   *)
(* starts as soon as it is the oldest one waiting and fewer than           *)
(* MaxWorkers predictions are running; never more than MaxWorkers run at   *)
(* once, the others wait in submission order.                              *)
C9_SlowPredictionBlocksOnlyItself ==
    /\ \A r \in Requests : CanProceed(r)
    /\ Cardinality(running) <= MaxWorkers
    /\ (work_queue # <<>> /\ Cardinality(running) < MaxWorkers) =>
           ENABLED to_thread(Head(work_queue))
    /\ (work_queue # <<>> /\ Cardinality(running) >= MaxWorkers) =>
           ~ENABLED to_thread(Head(work_queue))
    /\ \A i \in 1..Len(work_queue) :
           /\ pc[work_queue[i]] = "Predicting" /\ work_queue[i] \notin running
           /\ \A j \in 1..Len(work_queue) : i < j => work_queue[i] # work_queue[j]
    /\ \A r \in running : pc[r] = "Predicting"

(* A later request was answered 200 while an earlier prediction is still   *)
(* running.                                                                *)
C9_Witness ==
    \E r, q \in Requests :
        /\ r < q
        /\ r \in running
        /\ trace[q] = Stages /\ Sent(q) /\ Answer(q).status = 200

(* C10 as stated: the number of lines of the record file is the number of  *)
(* requests whose prediction succeeded and whose line was written.         *)
C10_LineCount == Count(record_file, "LF") = Len(recorded)

RECURSIVE Entries(_)
Entries(rs) ==
    IF rs = <<>> THEN <<>>
    ELSE Note(Head(rs)) \o <<"TAB">> \o FloatRepr(Answer(Head(rs)).score)
             \o <<"LF">> \o Entries(Tail(rs))

(* C10 amended: the record file is exactly the entries note, TAB, score,   *)
(* newline of the requests that completed a successful prediction with     *)
(* recording enabled and a successful write, one entry each in completion  *)
(* order, with the untruncated note and the returned score; no other       *)
(* request and no request with recording disabled changes it. The number   *)
(* of lines equals the number of these requests when no recorded note      *)
(* contains a newline.                                                     *)
C10_RecordFileContent ==
    /\ record_file = Entries(recorded)
    /\ Cardinality(RecordedSet) = Len(recorded)
    /\ \A r \in RecordedSet :
           record_enabled /\ result[r] # <<>> /\ Sent(r) /\ Answer(r).status = 200
    /\ ~record_enabled => record_file = <<>>
    /\ record_enabled =>
           Len(recorded) + Len(stderr) = Cardinality({r \in Requests : result[r] # <<>>})
    /\ (\A r \in RecordedSet : Count(Note(r), "LF") = 0) =>
           Count(record_file, "LF") = Len(recorded)

(* Two entries written in the reverse of the arrival order, the notes      *)
(* longer than max_content_length, beside a request answered 403.          *)
C10_Witness ==
    \E r, q, u \in Requests :
        /\ r < q
        /\ recorded = <<q, r>>
        /\ max_content_length < Len(Note(r))
        /\ Sent(u) /\ Answer(u).status = 403

====
